---- MODULE Spec2Model ----
(***************************************************************************)
(* Credit accounting of the GhostWriter backend: the users / stories /     *)
(* transactions tables, the credit-gated generation handlers of            *)
(* main_additions.py and the Stripe webhook of main.py.                    *)
(*                                                                         *)
(* Every request owns one SQLAlchemy session (get_db).  current_user is an *)
(* object of that session: the handlers change its attributes in memory    *)
(* and the next db.commit() writes the changed columns, as absolute        *)
(* values, to the users row (UPDATE users SET col = value WHERE id = ..).  *)
(* A column whose value equals the loaded one is not written.              *)
(***************************************************************************)
EXTENDS Integers, Sequences, FiniteSets, TLC

\* ---------------------------------------------------------------- bounds
MaxReqs == 2            \* generation requests per behaviour
NumEmails == 2          \* e-mail addresses (one users row at most per address)
MaxDeliveries == 2      \* webhook deliveries per behaviour
MaxSignups == 2         \* signup requests per behaviour

Reqs == 1..MaxReqs
Emails == 1..NumEmails
Signups == 1..MaxSignups

\* balances the users rows hold when the process starts (the table outlives
\* the process; no handler of the repository grants credits)
InitBalances == {0, 100}

NoStory == 0
NoSession == 0

\* ------------------------------------------------------------ cost tables
FictionLength == {"sample", "novella", "novel"}
BiographyLength == {"sample", "short_memoir", "standard_biography", "comprehensive"}

ExtraType ==
  {"ebook_cover", "print_cover", "epub_export", "mobi_export", "kdp_pdf",
   "blurb", "author_bio"}

\* the nested table of main_additions.py, the one the handlers look up
CREDIT_COSTS ==
  [fiction |-> [sample |-> 0, novella |-> 50, novel |-> 100],
   biography |-> [sample |-> 0, short_memoir |-> 50,
                  standard_biography |-> 75, comprehensive |-> 125],
   extras |-> [ebook_cover |-> 10, print_cover |-> 15, epub_export |-> 5,
               mobi_export |-> 5, kdp_pdf |-> 10, blurb |-> 5, author_bio |-> 3]]

\* the flat table of config.py
config_CREDIT_COSTS ==
  ("fiction_sample" :> 0) @@ ("fiction_novella" :> 50) @@ ("fiction_novel" :> 100)
  @@ ("biography_sample" :> 0) @@ ("biography_short_memoir" :> 50)
  @@ ("biography_standard" :> 75) @@ ("biography_comprehensive" :> 125)
  @@ ("ebook_cover" :> 10) @@ ("print_cover" :> 15) @@ ("epub_export" :> 5)
  @@ ("mobi_export" :> 5) @@ ("kdp_pdf" :> 10) @@ ("blurb" :> 5)
  @@ ("author_bio" :> 3)

\* the flat table's key of a product: "<category>_<tier>", an extra by its
\* bare name
FlatKey(category, tier) ==
  IF category = "extras" THEN tier ELSE category \o "_" \o tier

\* credits of the packs purchase_credits sells
CREDIT_PACKS ==
  [micro |-> 20, small |-> 40, medium |-> 60, starter |-> 100,
   value |-> 250, pro |-> 550, ultimate |-> 1200]

StoryLengths(kind) == IF kind = "fiction" THEN FictionLength ELSE BiographyLength

\* ------------------------------------------------------------- User model
CreditCols == {"credits_balance", "total_credits_purchased", "total_credits_spent"}

\* a users row that starts with welcome credits
User_welcome_credits(balance) ==
  [exists |-> TRUE,
   credits_balance |-> balance + 10,
   total_credits_purchased |-> balance,
   total_credits_spent |-> 0,
   subscription_status |-> "none",
   stories_generated |-> 0]

\* a users row with the column defaults of models.User, and the two
\* attributes stripe_webhook sets on it (subscription_status,
\* stories_generated; models.User declares no such columns)
User(balance) ==
  [exists |-> TRUE,
   credits_balance |-> balance,
   total_credits_purchased |-> balance,
   total_credits_spent |-> 0,
   subscription_status |-> "none",
   stories_generated |-> 0]

\* no row for the address
NoUser ==
  [exists |-> FALSE,
   credits_balance |-> 0,
   total_credits_purchased |-> 0,
   total_credits_spent |-> 0,
   subscription_status |-> "none",
   stories_generated |-> 0]

\* the attributes of current_user a handler works on
Attrs(row) == [c \in CreditCols |-> row[c]]

\* add_credits with the sign of the balance update slipped
add_credits_subtracts(self, amount) ==
  [self EXCEPT !.credits_balance = @ - amount,
               !.total_credits_purchased = @ + amount]

\* add_credits applying the amount to the balance twice
add_credits_twice(self, amount) ==
  [self EXCEPT !.credits_balance = @ + amount + amount,
               !.total_credits_purchased = @ + amount]

\* add_credits that forgets the balance
add_credits_counter_only(self, amount) ==
  [self EXCEPT !.total_credits_purchased = @ + amount]

add_credits(self, amount) ==
  [self EXCEPT !.credits_balance = @ + amount,
               !.total_credits_purchased = @ + amount]

\* deduct_credits that leaves total_credits_spent alone
deduct_credits_balance_only(self, amount) ==
  IF self.credits_balance >= amount
    THEN [ok |-> TRUE, self |-> [self EXCEPT !.credits_balance = @ - amount]]
    ELSE [ok |-> FALSE, self |-> self]

deduct_credits(self, amount) ==
  IF self.credits_balance >= amount
    THEN [ok |-> TRUE,
          self |-> [self EXCEPT !.credits_balance = @ - amount,
                                !.total_credits_spent = @ + amount]]
    ELSE [ok |-> FALSE, self |-> self]

\* db.commit() on a session holding current_user: the unit of work writes
\* the attributes that differ from the loaded ones
Flush(row, cur, loaded) ==
  [f \in DOMAIN row |->
     IF f \in CreditCols /\ cur[f] # loaded[f] THEN cur[f] ELSE row[f]]

\* ---------------------------------------------------------------- ledger
\* a row recorded for the neighbouring account
Transaction_wrong_user(user_id, type, credits, story, session) ==
  [user_id |-> (user_id % NumEmails) + 1, transaction_type |-> type,
   credits_amount |-> credits, status |-> "completed", story_id |-> story,
   stripe_session_id |-> session]

\* Transaction(...) as the handlers construct it (status="completed")
Transaction(user_id, type, credits, story, session) ==
  [user_id |-> user_id, transaction_type |-> type, credits_amount |-> credits,
   status |-> "completed", story_id |-> story, stripe_session_id |-> session]

Story(user_id, type, length) ==
  [user_id |-> user_id, story_type |-> type, length_type |-> length,
   generation_status |-> "complete"]

\* ------------------------------------------------------- payment events
\* the events Stripe can deliver; a redelivery carries the same content.
\* metadata.credits is what purchase_credits puts into the checkout session
EventIds == 1..4

StripeEvents ==
  [e \in EventIds |->
     CASE e = 1 -> [type |-> "checkout.session.completed", mode |-> "payment",
                    customer_email |-> 1, credits |-> CREDIT_PACKS.starter]
       [] e = 2 -> [type |-> "checkout.session.completed", mode |-> "subscription",
                    customer_email |-> NumEmails, credits |-> 0]
       [] e = 4 -> [type |-> "checkout.session.completed", mode |-> "payment",
                    customer_email |-> 1, credits |-> CREDIT_PACKS.value]
       [] OTHER -> [type |-> "payment_intent.succeeded", mode |-> "payment",
                    customer_email |-> 1, credits |-> 0]]

\* ----------------------------------------------------------------- state
VARIABLES
  users,          \* users table: e-mail -> row
  stories,        \* stories table, id = index
  transactions,   \* transactions table, id = index
  pc,             \* per request: position in its handler
  rq,             \* per request: [user, kind, story_length]
  cur,            \* per request: current_user's attributes in the session
  loaded,         \* per request: the attribute values as last loaded
  story_id,       \* per request: id of the story its job saved
  resp,           \* per request: credits_remaining of the response
  refunds,        \* per request: times the except branch added credits back
  before,         \* per request: credits_balance of the row when it was loaded
  disturbed,      \* per request: another request wrote its users row meanwhile
  deliveries,     \* per event: verified deliveries handled
  rejected,       \* webhook requests received with a signature that does not verify
  signups,        \* per signup request: [pc, email]
  created,        \* per e-mail: the inserts of a users row with that address,
                  \* by origin ("seed": the row was there at the start)
  outline         \* per request: the outline text received and the chapters
                  \* of the outline generate_fiction works from

vars == <<users, stories, transactions, pc, rq, cur, loaded, story_id, resp,
          refunds, before, disturbed, deliveries, rejected, signups, created,
                 outline>>

\* no outline yet
NoOutline == [text |-> "none", chapters |-> 0]

NoReq == [user |-> 0, kind |-> "none", story_length |-> "none"]

InFlight(r) ==
  pc[r] \in {"authorizing", "generating", "outlined", "story_saved", "logged"}

credits_required(r) == CREDIT_COSTS[rq[r].kind][rq[r].story_length]

\* the free-tier test comparing with a name no length has
IsSample_wrong_name(length) == length = "free"

IsSample(length) == length = "sample"

\* the purchase rows behind the initial balances
SeedRow(e, row) == Transaction(e, "credit_purchase", row.credits_balance, NoStory, NoSession)

RECURSIVE SeedLedger(_, _)
SeedLedger(u, e) ==
  IF e > NumEmails THEN <<>>
  ELSE (IF u[e].exists /\ u[e].credits_balance > 0 THEN <<SeedRow(e, u[e])>> ELSE <<>>)
       \o SeedLedger(u, e + 1)

Init ==
  /\ users \in [Emails -> {NoUser} \cup {User(b) : b \in InitBalances}]
  /\ stories = <<>>
  /\ transactions = SeedLedger(users, 1)
  /\ pc = [r \in Reqs |-> "idle"]
  /\ rq = [r \in Reqs |-> NoReq]
  /\ cur = [r \in Reqs |-> Attrs(NoUser)]
  /\ loaded = [r \in Reqs |-> Attrs(NoUser)]
  /\ story_id = [r \in Reqs |-> NoStory]
  /\ resp = [r \in Reqs |-> -1]
  /\ refunds = [r \in Reqs |-> 0]
  /\ before = [r \in Reqs |-> 0]
  /\ disturbed = [r \in Reqs |-> FALSE]
  /\ deliveries = [e \in EventIds |-> 0]
  /\ rejected = 0
  /\ signups = [s \in Signups |-> [pc |-> "idle", email |-> 0]]
  /\ created = [e \in Emails |-> IF users[e].exists THEN <<"seed">> ELSE <<>>]
  /\ outline = [r \in Reqs |-> NoOutline]

\* requests whose users row is written by somebody else while they run
Disturb(r, u, changed) ==
  [q \in Reqs |->
     IF q # r /\ changed /\ InFlight(q) /\ rq[q].user = u THEN TRUE ELSE disturbed[q]]

\* --------------------------------------------- credit-gated generation
\* Depends(get_current_user): the session loads the row of the token's user
get_current_user(r, u, kind, length) ==
  /\ pc[r] = "idle"
  /\ (IF r = 1 THEN TRUE ELSE pc[r - 1] # "idle")
  /\ users[u].exists
  /\ rq' = [rq EXCEPT ![r] = [user |-> u, kind |-> kind, story_length |-> length]]
  /\ cur' = [cur EXCEPT ![r] = Attrs(users[u])]
  /\ loaded' = [loaded EXCEPT ![r] = Attrs(users[u])]
  /\ before' = [before EXCEPT ![r] = users[u].credits_balance]
  /\ pc' = [pc EXCEPT ![r] = "authorizing"]
  /\ UNCHANGED <<users, stories, transactions, story_id, resp, refunds,
                 disturbed, deliveries, rejected, signups, created,
                 outline>>

\* the check with the comparison inverted
InsufficientCredits_inverted(current_user, required) ==
  current_user.credits_balance > required

InsufficientCredits(current_user, required) ==
  current_user.credits_balance < required

\* generate_fiction_with_credits up to the job: sample, check, deduct
generate_fiction_with_credits(r) ==
  /\ pc[r] = "authorizing"
  /\ rq[r].kind = "fiction"
  /\ LET required == credits_required(r)
         d == deduct_credits(cur[r], required)
     IN IF IsSample(rq[r].story_length)
          THEN /\ pc' = [pc EXCEPT ![r] = "generating"]
               /\ cur' = cur
        ELSE IF InsufficientCredits(cur[r], required)
          THEN /\ pc' = [pc EXCEPT ![r] = "err400"]
               /\ cur' = cur
        ELSE IF ~d.ok
          THEN /\ pc' = [pc EXCEPT ![r] = "err400"]
               /\ cur' = cur
        ELSE /\ pc' = [pc EXCEPT ![r] = "generating"]
             /\ cur' = [cur EXCEPT ![r] = d.self]
  /\ UNCHANGED <<users, stories, transactions, rq, loaded, story_id, resp,
                 refunds, before, disturbed, deliveries, rejected, signups, created,
                 outline>>

\* the biography handler without its balance check: deduct_credits is called
\* and its result is not looked at
generate_biography_with_credits_unchecked(r) ==
  /\ pc[r] = "authorizing"
  /\ rq[r].kind = "biography"
  /\ LET required == credits_required(r)
         d == deduct_credits(cur[r], required)
     IN /\ pc' = [pc EXCEPT ![r] = "generating"]
        /\ cur' = IF IsSample(rq[r].story_length) THEN cur
                  ELSE [cur EXCEPT ![r] = d.self]
  /\ UNCHANGED <<users, stories, transactions, rq, loaded, story_id, resp,
                 refunds, before, disturbed, deliveries, rejected, signups,
                 created, outline>>

\* generate_biography_with_credits up to the job: the result of
\* deduct_credits is not looked at
generate_biography_with_credits(r) ==
  /\ pc[r] = "authorizing"
  /\ rq[r].kind = "biography"
  /\ LET required == credits_required(r)
         d == deduct_credits(cur[r], required)
     IN IF IsSample(rq[r].story_length)
          THEN /\ pc' = [pc EXCEPT ![r] = "generating"]
               /\ cur' = cur
        ELSE IF InsufficientCredits(cur[r], required)
          THEN /\ pc' = [pc EXCEPT ![r] = "err400"]
               /\ cur' = cur
        ELSE /\ pc' = [pc EXCEPT ![r] = "generating"]
             /\ cur' = [cur EXCEPT ![r] = d.self]
  /\ UNCHANGED <<users, stories, transactions, rq, loaded, story_id, resp,
                 refunds, before, disturbed, deliveries, rejected, signups, created,
                 outline>>

\* ------------------------------------------------- the fiction outline
\* what the structured model can answer to the outline prompt: a JSON object
\* with a chapters array, JSON that is not an object, text that is not JSON
OutlineTexts == {"json_object", "json_array", "not_json"}

\* chapters of an outline the model wrote
LlmChapters == 2

\* json.loads(outline_text): TRUE when it returns, FALSE when it raises
json_loads(outline_text) == outline_text # "not_json"

\* generate_fiction with the parse error left to the caller: the handler's
\* except branch adds the credits back and answers 500
generate_fiction_outline_no_fallback(r, outline_text) ==
  /\ pc[r] = "generating"
  /\ rq[r].kind = "fiction"
  /\ IF json_loads(outline_text)
       THEN /\ outline' = [outline EXCEPT ![r] =
                            [text |-> outline_text, chapters |-> LlmChapters]]
            /\ pc' = [pc EXCEPT ![r] = "outlined"]
            /\ UNCHANGED <<users, cur, loaded, refunds, disturbed>>
       ELSE LET u == rq[r].user
                refunded == add_credits(cur[r], credits_required(r))
                row == Flush(users[u], refunded, loaded[r])
            IN /\ users' = [users EXCEPT ![u] = row]
               /\ disturbed' = Disturb(r, u, row # users[u])
               /\ cur' = [cur EXCEPT ![r] = refunded]
               /\ loaded' = [loaded EXCEPT ![r] = Attrs(row)]
               /\ refunds' = [refunds EXCEPT ![r] = @ + 1]
               /\ pc' = [pc EXCEPT ![r] = "err500"]
               /\ outline' = [outline EXCEPT ![r] =
                               [text |-> outline_text, chapters |-> 0]]
  /\ UNCHANGED <<stories, transactions, rq, story_id, resp, before,
                 deliveries, rejected, signups, created>>

\* generate_fiction, step 1: the outline call returns and its text is
\* parsed; when json.loads raises, the bare except puts the one-chapter
\* outline in its place
generate_fiction_outline(r, outline_text) ==
  /\ pc[r] = "generating"
  /\ rq[r].kind = "fiction"
  /\ outline' = [outline EXCEPT ![r] =
                   [text |-> outline_text,
                    chapters |-> IF json_loads(outline_text) THEN LlmChapters
                                 ELSE 1]]
  /\ pc' = [pc EXCEPT ![r] = "outlined"]
  /\ UNCHANGED <<users, stories, transactions, rq, cur, loaded, story_id, resp,
                 refunds, before, disturbed, deliveries, rejected, signups,
                 created>>

\* generate_fiction / generate_biography return (the handlers pass a third
\* argument, current_user.id, for the story's owner): the LLM calls are over, the
\* story is added and db.commit() writes it together with the changed
\* attributes of current_user; the commit expires the session's objects
generate_story(r) ==
  /\ pc[r] \in {"generating", "outlined"}
  /\ outline[r].text # "json_array"    \* outline.get raises on a non-object
  /\ LET u == rq[r].user
         row == Flush(users[u], cur[r], loaded[r])
     IN /\ stories' = Append(stories, Story(u, rq[r].kind, rq[r].story_length))
        /\ users' = [users EXCEPT ![u] = row]
        /\ disturbed' = Disturb(r, u, row # users[u])
        /\ cur' = [cur EXCEPT ![r] = Attrs(row)]
        /\ loaded' = [loaded EXCEPT ![r] = Attrs(row)]
  /\ story_id' = [story_id EXCEPT ![r] = Len(stories) + 1]
  /\ pc' = [pc EXCEPT ![r] = IF IsSample(rq[r].story_length) THEN "done200"
                             ELSE "story_saved"]
  /\ UNCHANGED <<transactions, rq, resp, refunds, before, deliveries, rejected, signups, created,
                 outline>>

\* the spend row written without the link to the story
log_transaction_unlinked(r) ==
  /\ pc[r] = "story_saved"
  /\ LET u == rq[r].user
     IN /\ cur' = [cur EXCEPT ![r] = Attrs(users[u])]
        /\ loaded' = [loaded EXCEPT ![r] = Attrs(users[u])]
        /\ transactions' = Append(transactions,
              Transaction(u, "story_generation", -credits_required(r),
                          NoStory, NoSession))
  /\ pc' = [pc EXCEPT ![r] = "logged"]
  /\ UNCHANGED <<users, stories, rq, story_id, resp, refunds, before,
                 disturbed, deliveries, rejected, signups, created, outline>>

\* "Log transaction": current_user.id reloads the expired object, the
\* Transaction is added and committed
log_transaction(r) ==
  /\ pc[r] = "story_saved"
  /\ LET u == rq[r].user
     IN /\ cur' = [cur EXCEPT ![r] = Attrs(users[u])]
        /\ loaded' = [loaded EXCEPT ![r] = Attrs(users[u])]
        /\ transactions' = Append(transactions,
              Transaction(u, "story_generation", -credits_required(r),
                          story_id[r], NoSession))
  /\ pc' = [pc EXCEPT ![r] = "logged"]
  /\ UNCHANGED <<users, stories, rq, story_id, resp, refunds, before,
                 disturbed, deliveries, rejected, signups, created,
                 outline>>

\* the return statement reads current_user.credits_balance, expired by the
\* commit before it, from the row
return_credits_remaining(r) ==
  /\ pc[r] = "logged"
  /\ LET u == rq[r].user
     IN /\ cur' = [cur EXCEPT ![r] = Attrs(users[u])]
        /\ loaded' = [loaded EXCEPT ![r] = Attrs(users[u])]
        /\ resp' = [resp EXCEPT ![r] = users[u].credits_balance]
  /\ pc' = [pc EXCEPT ![r] = "done200"]
  /\ UNCHANGED <<users, stories, transactions, rq, story_id, refunds, before,
                 disturbed, deliveries, rejected, signups, created,
                 outline>>

\* the paid handler without its except branch: the exception is the
\* response and nothing is added back
generation_failed_no_refund(r) ==
  /\ pc[r] = "generating"
  /\ pc' = [pc EXCEPT ![r] = "err500"]
  /\ UNCHANGED <<users, stories, transactions, rq, cur, loaded, story_id, resp,
                 refunds, before, disturbed, deliveries, rejected, signups, created,
                 outline>>

\* the except branch that also marks the account's completed rows refunded
generation_failed_marks_rows(r) ==
  /\ pc[r] = "generating"
  /\ LET u == rq[r].user
         refunded == add_credits(cur[r], credits_required(r))
         row == Flush(users[u], refunded, loaded[r])
     IN IF IsSample(rq[r].story_length)
          THEN UNCHANGED <<users, cur, loaded, refunds, disturbed, transactions>>
          ELSE /\ users' = [users EXCEPT ![u] = row]
               /\ disturbed' = Disturb(r, u, row # users[u])
               /\ cur' = [cur EXCEPT ![r] = refunded]
               /\ loaded' = [loaded EXCEPT ![r] = Attrs(row)]
               /\ refunds' = [refunds EXCEPT ![r] = @ + 1]
               /\ transactions' =
                    [i \in DOMAIN transactions |->
                       IF transactions[i].user_id = u
                            /\ transactions[i].status = "completed"
                         THEN [transactions[i] EXCEPT !.status = "refunded"]
                         ELSE transactions[i]]
  /\ pc' = [pc EXCEPT ![r] = "err500"]
  /\ UNCHANGED <<stories, rq, story_id, resp, before,
                 deliveries, rejected, signups, created,
                 outline>>

\* an LLM call raises.  Sample: the call is outside the try, the exception
\* is the response.  Paid: the except branch adds the credits back, commits
\* and raises HTTPException(500)
generation_failed(r) ==
  /\ pc[r] \in {"generating", "outlined"}
  /\ LET u == rq[r].user
         refunded == add_credits(cur[r], credits_required(r))
         row == Flush(users[u], refunded, loaded[r])
     IN IF IsSample(rq[r].story_length)
          THEN UNCHANGED <<users, cur, loaded, refunds, disturbed>>
          ELSE /\ users' = [users EXCEPT ![u] = row]
               /\ disturbed' = Disturb(r, u, row # users[u])
               /\ cur' = [cur EXCEPT ![r] = refunded]
               /\ loaded' = [loaded EXCEPT ![r] = Attrs(row)]
               /\ refunds' = [refunds EXCEPT ![r] = @ + 1]
  /\ pc' = [pc EXCEPT ![r] = "err500"]
  /\ UNCHANGED <<stories, transactions, rq, story_id, resp, before,
                 deliveries, rejected, signups, created,
                 outline>>

\* --------------------------------------------------------------- webhook
\* POST /api/webhook.  A request whose signature does not verify is answered
\* 400.  For checkout.session.completed the user is looked up by e-mail and
\* created when missing, a subscription is activated, stories_generated is
\* incremented and the session commits; other event types change nothing.
\* The handler neither calls add_credits nor adds a Transaction.
Delivered == deliveries[1] + deliveries[2] + deliveries[3] + deliveries[4] + rejected

\* stripe.Webhook.construct_event with the signature check left out
construct_event_unchecked(sig_ok) == TRUE

\* stripe.Webhook.construct_event: TRUE when the signature verifies, else it
\* raises
construct_event(sig_ok) == sig_ok

\* the checkout.session.completed branch writing the event's credits into
\* the balance instead of leaving the credit columns alone
checkout_session_completed_sets_balance(table, session) ==
  [table EXCEPT ![session.customer_email] =
     [(IF @.exists THEN @ ELSE User(0)) EXCEPT
        !.credits_balance = session.credits,
        !.stories_generated = @ + 1]]

\* the checkout.session.completed branch: the users table after its commit
checkout_session_completed(table, session) ==
  LET email == session.customer_email
      user == IF table[email].exists THEN table[email] ELSE User(0)
      sub == IF session.mode = "subscription"
               THEN [user EXCEPT !.subscription_status = "active"]
               ELSE user
  IN [table EXCEPT ![email] = [sub EXCEPT !.stories_generated = @ + 1]]

stripe_webhook(e, sig_ok) ==
  /\ Delivered < MaxDeliveries
  /\ rejected' = IF sig_ok THEN rejected ELSE rejected + 1
  /\ IF ~construct_event(sig_ok)
       THEN UNCHANGED <<users, deliveries, disturbed>>
       ELSE /\ deliveries' = [deliveries EXCEPT ![e] = @ + 1]
            /\ IF StripeEvents[e].type = "checkout.session.completed"
                 THEN /\ users' = checkout_session_completed(users, StripeEvents[e])
                      /\ disturbed' = Disturb(0, StripeEvents[e].customer_email, TRUE)
                 ELSE UNCHANGED <<users, disturbed>>
  /\ created' = IF /\ construct_event(sig_ok)
                   /\ StripeEvents[e].type = "checkout.session.completed"
                   /\ ~users[StripeEvents[e].customer_email].exists
                 THEN [created EXCEPT ![StripeEvents[e].customer_email] =
                         Append(@, "webhook")]
                 ELSE created
  /\ UNCHANGED <<stories, transactions, pc, rq, cur, loaded, story_id, resp,
                 refunds, before, signups, outline>>

\* ---------------------------------------------------------------- signup
\* the variables no signup step changes
request_vars == <<stories, transactions, pc, rq, cur, loaded, story_id, resp,
                  refunds, before, disturbed, deliveries, rejected, outline>>

\* POST /api/auth/signup up to the query: an address that has a row is
\* answered 400 "Email already registered"
signup(s, email) ==
  /\ signups[s].pc = "idle"
  /\ (IF s = 1 THEN TRUE ELSE signups[s - 1].pc # "idle")
  /\ signups' = [signups EXCEPT ![s] =
                   [pc |-> IF users[email].exists THEN "err400" ELSE "creating",
                    email |-> email]]
  /\ UNCHANGED <<users, created, request_vars>>

\* a users table without the unique constraint on email
email_unique_not_enforced(email) == FALSE

\* email = Column(String, unique=True): an INSERT of a second row with the
\* address raises IntegrityError
email_unique_violation(email) == Len(created[email]) > 0

\* db.add(user); db.commit(): User(email, full_name) gets the column
\* defaults; users.email is unique, so the INSERT fails when a row for the
\* address was inserted since the query
signup_commit(s) ==
  /\ signups[s].pc = "creating"
  /\ LET email == signups[s].email
     IN IF email_unique_violation(email)
          THEN /\ signups' = [signups EXCEPT ![s].pc = "err500"]
               /\ UNCHANGED <<users, created>>
          ELSE /\ users' = [users EXCEPT ![email] = User(0)]
               /\ created' = [created EXCEPT ![email] = Append(@, "signup")]
               /\ signups' = [signups EXCEPT ![s].pc = "done200"]
  /\ UNCHANGED request_vars

\* ------------------------------------------------------------------ spec
Next ==
  \/ \E r \in Reqs, u \in Emails, kind \in {"fiction", "biography"} :
       \E length \in StoryLengths(kind) : get_current_user(r, u, kind, length)
  \/ \E r \in Reqs : generate_fiction_with_credits(r)
  \/ \E r \in Reqs : generate_biography_with_credits(r)
  \/ \E r \in Reqs : generate_story(r)
  \/ \E r \in Reqs : log_transaction(r)
  \/ \E r \in Reqs : return_credits_remaining(r)
  \/ \E r \in Reqs : generation_failed(r)
  \/ \E e \in EventIds, sig_ok \in BOOLEAN : stripe_webhook(e, sig_ok)

Spec == Init /\ [][Next]_vars

\* the steps of one request's handler
RequestStep(r) ==
  \/ generate_fiction_with_credits(r)
  \/ generate_biography_with_credits(r)
  \/ generate_story(r)
  \/ log_transaction(r)
  \/ return_credits_remaining(r)
  \/ generation_failed(r)

\* a handler runs in its worker thread until it returns or raises, and an
\* LLM call ends: it answers, raises, or its timeout raises
SpecFair == Spec /\ \A r \in Reqs : WF_vars(RequestStep(r))

\* account creation: the signup requests and the webhook deliveries
NextAccounts ==
  \/ \E s \in Signups, email \in Emails : signup(s, email)
  \/ \E s \in Signups : signup_commit(s)
  \/ \E e \in EventIds, sig_ok \in BOOLEAN : stripe_webhook(e, sig_ok)

SpecAccounts == Init /\ [][NextAccounts]_vars

\* fiction requests with the steps of generate_fiction told apart: the
\* outline call and its parse, then the chapter calls and the save
NextFiction ==
  \/ \E r \in Reqs, u \in Emails, length \in FictionLength :
       get_current_user(r, u, "fiction", length)
  \/ \E r \in Reqs : generate_fiction_with_credits(r)
  \/ \E r \in Reqs, outline_text \in OutlineTexts :
       generate_fiction_outline(r, outline_text)
  \/ \E r \in Reqs : pc[r] = "outlined" /\ generate_story(r)
  \/ \E r \in Reqs : log_transaction(r)
  \/ \E r \in Reqs : return_credits_remaining(r)
  \/ \E r \in Reqs : generation_failed(r)

SpecFiction == Init /\ [][NextFiction]_vars

\* requests that do not overlap: a request is received only when no other
\* request is in its handler; webhook deliveries come at any time
NextSequential ==
  \/ \E r \in Reqs, u \in Emails, kind \in {"fiction", "biography"} :
       \E length \in StoryLengths(kind) :
         /\ \A q \in Reqs : ~InFlight(q)
         /\ get_current_user(r, u, kind, length)
  \/ \E r \in Reqs : generate_fiction_with_credits(r)
  \/ \E r \in Reqs : generate_biography_with_credits(r)
  \/ \E r \in Reqs : generate_story(r)
  \/ \E r \in Reqs : log_transaction(r)
  \/ \E r \in Reqs : return_credits_remaining(r)
  \/ \E r \in Reqs : generation_failed(r)
  \/ \E e \in EventIds, sig_ok \in BOOLEAN : stripe_webhook(e, sig_ok)

SpecSequential == Init /\ [][NextSequential]_vars

\* ================================================================ claims
Paid(r) == rq[r].kind # "none" /\ rq[r].story_length # "sample"

RECURSIVE LedgerSum(_, _)
\* sum of the credit deltas of the completed transactions of user e among
\* the first n rows
LedgerSum(e, n) ==
  IF n = 0 THEN 0
  ELSE LedgerSum(e, n - 1)
       + (IF transactions[n].user_id = e /\ transactions[n].status = "completed"
            THEN transactions[n].credits_amount ELSE 0)

PurchaseRows(e) ==
  {i \in DOMAIN transactions :
     /\ transactions[i].transaction_type = "credit_purchase"
     /\ transactions[i].stripe_session_id = e}

IsPurchaseEvent(e) ==
  /\ StripeEvents[e].type = "checkout.session.completed"
  /\ StripeEvents[e].mode = "payment"
  /\ StripeEvents[e].credits > 0

\* C1: in every reachable state every account's credits_balance is >= 0, in
\* the users table and in every request's current_user.
C1_BalanceNonNegative ==
  /\ \A e \in Emails : users[e].credits_balance >= 0
  /\ \A r \in Reqs : cur[r].credits_balance >= 0

\* C1 witness: a paid request was debited and answered, another one was
\* refunded, and a webhook delivery was handled.
C1_Witness ==
  \E r1, r2 \in Reqs :
    /\ Paid(r1) /\ pc[r1] = "done200"
    /\ Paid(r2) /\ pc[r2] = "err500" /\ refunds[r2] = 1
    /\ deliveries[1] > 0

\* C2: two overlapping paid requests of one account, each costing N with
\* N <= balance < 2N: exactly one is debited and answered, the other is
\* rejected, and the balance ends at the initial balance minus N.
C2_ConcurrentDebit ==
  \A r1, r2 \in Reqs :
    ( /\ r1 # r2
      /\ Paid(r1) /\ Paid(r2)
      /\ rq[r1].user = rq[r2].user
      /\ credits_required(r1) = credits_required(r2)
      /\ before[r1] = before[r2]
      /\ credits_required(r1) <= before[r1]
      /\ before[r1] < 2 * credits_required(r1)
      /\ pc[r1] \in {"done200", "err400"}
      /\ pc[r2] \in {"done200", "err400"} )
    => /\ pc[r1] # pc[r2]
       /\ users[rq[r1].user].credits_balance = before[r1] - credits_required(r1)

\* C3: in every reachable state, for every account, credits_balance equals
\* the sum of the credit deltas of its completed transactions.
C3_LedgerReconciles ==
  \A e \in Emails :
    users[e].exists => users[e].credits_balance = LedgerSum(e, Len(transactions))

\* C4: once a purchase event was delivered, however often, the account was
\* credited exactly once: there is exactly one purchase row for the event.
C4_WebhookIdempotent ==
  \A e \in EventIds :
    (IsPurchaseEvent(e) /\ deliveries[e] >= 1) => Cardinality(PurchaseRows(e)) = 1

\* C5: at most one refund is applied per job, and after it the balance of
\* the request's account object is the one it had before the debit: a single
\* credit-back.
C5_SingleRefund ==
  \A r \in Reqs :
    /\ refunds[r] <= 1
    /\ refunds[r] = 1 => (Paid(r) /\ pc[r] = "err500"
                          /\ cur[r].credits_balance = before[r])

\* C5 witness: a request whose job failed was refunded.
C5_Witness ==
  \E r \in Reqs : refunds[r] = 1 /\ pc[r] = "err500" /\ before[r] > 0

\* C6: when the job of a paid request fails, the request ends in an error,
\* the debited credits are added back exactly once and, if nothing else wrote
\* the account meanwhile, the row's credits_balance is the one before the
\* request.
C6_FailedJobRefunded ==
  [][\A r \in Reqs :
       (pc[r] = "generating" /\ pc'[r] = "err500" /\ Paid(r))
       => /\ refunds[r] = 0 /\ refunds'[r] = 1
          /\ cur'[r].credits_balance = cur[r].credits_balance + credits_required(r)
          /\ ~disturbed[r] => users'[rq[r].user].credits_balance = before[r]]_vars

\* C6 witness: a paid request ended in the error after its job failed, with
\* no other write to its account, and the balance is the one before it.
C6_Witness ==
  \E r \in Reqs :
    /\ Paid(r) /\ pc[r] = "err500" /\ refunds[r] = 1 /\ ~disturbed[r]
    /\ before[r] >= credits_required(r)
    /\ users[rq[r].user].credits_balance = before[r]

\* C7: a paid request whose required credits exceed the balance it finds is
\* rejected with the 400 error; the rejection starts no job and writes
\* nothing: users rows, transactions and stories stay as they are.
C7_InsufficientRejected ==
  /\ [](\A r \in Reqs :
          (Paid(r) /\ pc[r] # "authorizing" /\ before[r] < credits_required(r))
          => (pc[r] = "err400" /\ story_id[r] = NoStory /\ refunds[r] = 0))
  /\ [][\A r \in Reqs :
          (pc[r] = "authorizing" /\ pc'[r] = "err400")
          => (users' = users /\ transactions' = transactions /\ stories' = stories)]_vars

\* C7 witness: a paid request was rejected for a balance below its cost.
C7_Witness ==
  \E r \in Reqs :
    /\ Paid(r) /\ pc[r] = "err400"
    /\ before[r] < credits_required(r) /\ before[r] > 0

\* C8: a sample request is never rejected, whatever the balance, and none of
\* its steps changes a users row's credit columns or the transactions.
C8_SampleFree ==
  [][\A r \in Reqs :
       (pc'[r] # pc[r] /\ rq'[r].story_length = "sample")
       => /\ pc'[r] # "err400"
          /\ transactions' = transactions
          /\ \A e \in Emails : Attrs(users'[e]) = Attrs(users[e])]_vars

\* C8 witness: a sample request on an account with balance 0 was answered
\* with its story.
C8_Witness ==
  \E r \in Reqs :
    /\ rq[r].story_length = "sample" /\ pc[r] = "done200"
    /\ before[r] = 0 /\ story_id[r] # NoStory
    /\ users[rq[r].user].credits_balance = 0

\* C9: a paid request with balance >= required credits decrements the row's
\* credits_balance by exactly the required credits, increments
\* total_credits_spent by the same amount, writes one completed
\* story_generation row of minus the required credits linked to the job's
\* story, and returns the new balance.
C9_DebitExact ==
  [][\A r \in Reqs :
       /\ (pc[r] = "generating" /\ pc'[r] = "story_saved")
          => /\ users'[rq[r].user].credits_balance
                  = users[rq[r].user].credits_balance - credits_required(r)
             /\ users'[rq[r].user].total_credits_spent
                  = users[rq[r].user].total_credits_spent + credits_required(r)
       /\ (pc[r] = "story_saved" /\ pc'[r] = "logged")
          => transactions' = Append(transactions,
                 Transaction(rq[r].user, "story_generation", -credits_required(r),
                             story_id[r], NoSession))
       /\ (pc[r] = "logged" /\ pc'[r] = "done200")
          => resp'[r] = users[rq[r].user].credits_balance]_vars

\* C10: handling a verified purchase event not seen before adds the pack's
\* credits to the account's credits_balance and total_credits_purchased and
\* writes one completed credit_purchase row that stores the event's
\* identifier.
C10_PurchaseApplied ==
  [][\A e \in EventIds :
       (IsPurchaseEvent(e) /\ deliveries[e] = 0 /\ deliveries'[e] = 1)
       => LET email == StripeEvents[e].customer_email
              credits == StripeEvents[e].credits
          IN /\ users'[email].credits_balance = users[email].credits_balance + credits
             /\ users'[email].total_credits_purchased
                  = users[email].total_credits_purchased + credits
             /\ transactions' = Append(transactions,
                   Transaction(email, "credit_purchase", credits, NoStory, e))]_vars

\* rows of the ledger of one kind
RowsOfType(type) ==
  {i \in DOMAIN transactions : transactions[i].transaction_type = type}

\* the step in which the except branch of request r refunds
RefundStep(r) == pc[r] = "generating" /\ pc'[r] = "err500" /\ Paid(r)

\* C11: the refund of a failed job's spend entry raises the balance by the
\* entry's absolute amount, writes a new refund row for the same job and sets
\* the spend row's status to refunded.
C11_RefundWritesLedger ==
  [][\A r \in Reqs :
       RefundStep(r)
       => /\ cur'[r].credits_balance = cur[r].credits_balance + credits_required(r)
          /\ \E i \in DOMAIN transactions' :
               /\ i \notin DOMAIN transactions
               /\ transactions'[i].transaction_type = "refund"
               /\ transactions'[i].user_id = rq[r].user
               /\ transactions'[i].credits_amount = credits_required(r)
          /\ \E i \in DOMAIN transactions :
               /\ transactions[i].transaction_type = "story_generation"
               /\ transactions[i].user_id = rq[r].user
               /\ transactions[i].status = "completed"
               /\ transactions'[i].status = "refunded"]_vars

\* C12: the end-to-end scenario, step by step: on an account at 0 the
\* 100-credit purchase event gives balance 100; the novella request then
\* debits 50, leaving the row at 50 with one spend row while its job runs;
\* when the job fails the refund gives balance 100, the spend row refunded
\* and a refund row present.
C12_EndToEnd ==
  [][/\ ( /\ users[1].credits_balance = 0
          /\ deliveries[1] = 0 /\ deliveries'[1] = 1 )
        => users'[1].credits_balance = CREDIT_PACKS.starter
     /\ \A r \in Reqs :
          ( /\ pc[r] = "authorizing" /\ pc'[r] = "generating"
            /\ rq[r].story_length = "novella" /\ before[r] = 100 )
          => /\ users'[rq[r].user].credits_balance = 50
             /\ Cardinality(RowsOfType("story_generation")') = 1
     /\ \A r \in Reqs :
          ( RefundStep(r) /\ rq[r].story_length = "novella" /\ before[r] = 100
            /\ ~disturbed[r] )
          => /\ users'[rq[r].user].credits_balance = 100
             /\ \E i \in RowsOfType("story_generation")' :
                  transactions'[i].status = "refunded"
             /\ RowsOfType("refund")' # {}]_vars

\* the step applies a purchase event to account e
PurchaseApplied(e) ==
  \E ev \in EventIds :
    /\ IsPurchaseEvent(ev)
    /\ StripeEvents[ev].customer_email = e
    /\ deliveries'[ev] = deliveries[ev] + 1

\* the step applies a debit to account e
DebitApplied(e) ==
  \E r \in Reqs :
    /\ rq[r].user = e /\ Paid(r)
    /\ pc[r] = "generating" /\ pc'[r] = "story_saved"

\* C13: total_credits_purchased and total_credits_spent never decrease;
\* total_credits_purchased grows only in a step that applies a purchase and
\* total_credits_spent only in a step that applies a debit.
C13_CountersMonotonic ==
  [][\A e \in Emails :
       /\ users'[e].total_credits_purchased >= users[e].total_credits_purchased
       /\ users'[e].total_credits_spent >= users[e].total_credits_spent
       /\ users'[e].total_credits_purchased > users[e].total_credits_purchased
            => PurchaseApplied(e)
       /\ users'[e].total_credits_spent > users[e].total_credits_spent
            => DebitApplied(e)]_vars

\* C14: a webhook request whose signature does not verify is refused before
\* any event handling: no event is handled and no users row, transaction or
\* story changes.
C14_UnverifiedRejected ==
  [][rejected' # rejected
       => /\ deliveries' = deliveries
          /\ users' = users
          /\ transactions' = transactions
          /\ stories' = stories]_vars

\* C14 witness: a request with a bad signature was received while an event
\* for the same table had been handled.
C14_Witness ==
  rejected > 0 /\ deliveries[1] > 0

\* the spend row of the story request r's job saved
SpendRowOf(r) ==
  {i \in DOMAIN transactions :
     /\ transactions[i].transaction_type = "story_generation"
     /\ transactions[i].status = "completed"
     /\ transactions[i].story_id = story_id[r]
     /\ transactions[i].user_id = rq[r].user}

SameCredits(t1, t2, e) ==
  \A c \in CreditCols : t1[e][c] = t2[e][c]

\* C16: two distinct purchase events for the same account, applied in either
\* order, give the same credits_balance, total_credits_purchased and
\* total_credits_spent, and the same ledger entries: no delivery changes the
\* transactions table.
C16_PurchasesCommute ==
  /\ [](\A a, b \in EventIds :
          (/\ a # b /\ IsPurchaseEvent(a) /\ IsPurchaseEvent(b)
           /\ StripeEvents[a].customer_email = StripeEvents[b].customer_email)
          => LET ab == checkout_session_completed(
                         checkout_session_completed(users, StripeEvents[a]),
                         StripeEvents[b])
                 ba == checkout_session_completed(
                         checkout_session_completed(users, StripeEvents[b]),
                         StripeEvents[a])
             IN \A e \in Emails : ab[e].exists = ba[e].exists /\ SameCredits(ab, ba, e))
  /\ [][(\E e \in EventIds : deliveries'[e] # deliveries[e])
          => transactions' = transactions]_vars

\* C16 witness: two distinct purchase events of one account were both
\* delivered and accepted.
C16_Witness ==
  \E a, b \in EventIds :
    /\ a # b /\ IsPurchaseEvent(a) /\ IsPurchaseEvent(b)
    /\ StripeEvents[a].customer_email = StripeEvents[b].customer_email
    /\ deliveries[a] > 0 /\ deliveries[b] > 0

\* the ledger entries of account e, in insertion order
LedgerOf(table, e) ==
  SelectSeq(table, LAMBDA t : t.user_id = e)

\* the step is an operation on account e: a step of a request of e's token,
\* or a webhook delivery for e's address
OperationOn(e) ==
  \/ \E r \in Reqs : pc'[r] # pc[r] /\ rq'[r].user = e
  \/ \E ev \in EventIds :
       /\ deliveries'[ev] # deliveries[ev]
       /\ StripeEvents[ev].customer_email = e

\* C17: a step that is not an operation on account e leaves e's
\* credits_balance, total_credits_purchased, total_credits_spent and ledger
\* entries unchanged, whatever the other accounts' operations do in between.
C17_OtherAccountsUntouched ==
  [][\A e \in Emails :
       ~OperationOn(e)
       => /\ SameCredits(users', users, e)
          /\ LedgerOf(transactions', e) = LedgerOf(transactions, e)]_vars

\* C17 witness: a debited and a refunded request of two different accounts
\* both finished, and a purchase event was delivered.
C17_Witness ==
  \E r1, r2 \in Reqs :
    /\ rq[r1].user # rq[r2].user
    /\ Paid(r1) /\ pc[r1] = "done200"
    /\ Paid(r2) /\ pc[r2] = "err500" /\ refunds[r2] = 1
    /\ \E ev \in EventIds : IsPurchaseEvent(ev) /\ deliveries[ev] > 0

\* C18: a step that creates an account, by signup or by the webhook for an
\* address without a row, creates it with credits_balance 0,
\* total_credits_purchased 0 and total_credits_spent 0.
C18_NewAccountZero ==
  [][\A e \in Emails :
       (~users[e].exists /\ users'[e].exists)
       => \A c \in CreditCols : users'[e][c] = 0]_vars

\* C18 witness: one account was created by signup and another one by the
\* webhook.
C18_Witness ==
  \E e1, e2 \in Emails :
    /\ created[e1] = <<"signup">> /\ users[e1].exists
    /\ created[e2] = <<"webhook">> /\ users[e2].exists

\* the product has an entry in both cost tables, a non-negative integer cost
\* that is 0 for a sample, and the same cost in both
CostDefined(category, tier) ==
  /\ category \in DOMAIN CREDIT_COSTS
  /\ tier \in DOMAIN CREDIT_COSTS[category]
  /\ CREDIT_COSTS[category][tier] \in Nat
  /\ (tier = "sample" => CREDIT_COSTS[category][tier] = 0)
  /\ FlatKey(category, tier) \in DOMAIN config_CREDIT_COSTS
  /\ config_CREDIT_COSTS[FlatKey(category, tier)] = CREDIT_COSTS[category][tier]

AllowedTransition(old, new, type) ==
  \/ new = old
  \/ old = "pending" /\ new \in {"completed", "failed"}
  \/ old = "completed" /\ new = "refunded" /\ type = "story_generation"

\* C20: in every step every ledger entry stays in the table and its status
\* either stays as it is or moves pending -> completed, pending -> failed, or
\* completed -> refunded (spend entries only); nothing leaves refunded or
\* failed.
C20_StatusTransitions ==
  [][/\ Len(transactions') >= Len(transactions)
     /\ \A i \in DOMAIN transactions :
          AllowedTransition(transactions[i].status, transactions'[i].status,
                            transactions[i].transaction_type)]_vars

\* C20 witness: a completed spend entry of an account is in the ledger and
\* the refund path has run for another request of the same account.
C20_Witness ==
  \E r1, r2 \in Reqs :
    /\ r1 # r2 /\ rq[r1].user = rq[r2].user
    /\ Cardinality(SpendRowOf(r1)) = 1
    /\ Paid(r2) /\ pc[r2] = "err500" /\ refunds[r2] = 1

\* the step in which request r passes the check, deducts and enters the
\* generation call
DebitStep(r) == Paid(r) /\ pc[r] = "authorizing" /\ pc'[r] = "generating"

\* C21: the debit of a paid request is persisted before the generation call
\* starts (the users row carries the lowered balance and the raised
\* total_credits_spent from the step that enters the call), and the refund of
\* a failed job is a later write of its own that raises the row's balance
\* again.
C21_DebitPersistedBeforeCall ==
  [][\A r \in Reqs :
       LET u == rq[r].user
       IN /\ DebitStep(r)
               => /\ users'[u].credits_balance
                       = users[u].credits_balance - credits_required(r)
                  /\ users'[u].total_credits_spent
                       = users[u].total_credits_spent + credits_required(r)
          /\ RefundStep(r)
               => users'[u].credits_balance
                    = users[u].credits_balance + credits_required(r)]_vars

\* request r works from the fallback outline
Fallback(r) == outline[r].text = "not_json"

\* C22: when the outline text is not valid JSON, generate_fiction goes on with
\* the one-chapter fallback outline instead of failing; the job that then
\* completes is a success like any other: the save writes the debited
\* balance of a paid request, the request ends with one completed spend row
\* and without a refund.
C22_OutlineFallbackSucceeds ==
  /\ [][\A r \in Reqs :
          (outline[r] = NoOutline /\ outline'[r].text = "not_json")
          => /\ outline'[r].chapters = 1
             /\ pc'[r] = "outlined"
             /\ refunds'[r] = refunds[r]
             /\ users' = users]_vars
  /\ [][\A r \in Reqs :
          (Fallback(r) /\ Paid(r) /\ pc[r] = "outlined" /\ pc'[r] = "story_saved")
          => users'[rq[r].user].credits_balance
               = before[r] - credits_required(r)]_vars
  /\ [](\A r \in Reqs :
          (Fallback(r) /\ Paid(r) /\ pc[r] = "done200")
          => /\ refunds[r] = 0
             /\ Cardinality(SpendRowOf(r)) = 1)

\* C22 witness: a paid fiction request whose outline text was not JSON was
\* answered 200 with its spend row.
C22_Witness ==
  \E r \in Reqs :
    /\ Paid(r) /\ Fallback(r) /\ pc[r] = "done200"
    /\ Cardinality(SpendRowOf(r)) = 1 /\ refunds[r] = 0

\* C23: with requests that do not overlap, every account's credits_balance
\* equals total_credits_purchased - total_credits_spent in every state, in
\* the users row and in the current_user of a request between its steps
\* (add_credits and deduct_credits each move two of the three together).
C23_BalanceIdentity ==
  /\ \A e \in Emails :
       users[e].exists
       => users[e].credits_balance
            = users[e].total_credits_purchased - users[e].total_credits_spent
  /\ \A r \in Reqs :
       InFlight(r)
       => cur[r].credits_balance
            = cur[r].total_credits_purchased - cur[r].total_credits_spent

\* C23 witness: on one account a paid request was refunded and, after it,
\* another paid request was answered 200.
C23_Witness ==
  \E r1, r2 \in Reqs :
    /\ r1 < r2 /\ rq[r1].user = rq[r2].user
    /\ Paid(r1) /\ pc[r1] = "err500" /\ refunds[r1] = 1
    /\ Paid(r2) /\ pc[r2] = "done200" /\ Cardinality(SpendRowOf(r2)) = 1

\* C24: credits are added back only by a paid request whose current_user
\* carries its own deduction of the same amount, and at most once; a step of
\* a sample request or a step that rejects a request for insufficient
\* credits raises no balance, neither in the users table nor in its
\* current_user.
C24_RefundOnlyAfterDebit ==
  /\ [][\A r \in Reqs :
          refunds'[r] # refunds[r]
          => /\ Paid(r)
             /\ refunds[r] = 0 /\ refunds'[r] = 1
             /\ cur[r].credits_balance
                  = loaded[r].credits_balance - credits_required(r)
             /\ cur[r].total_credits_spent
                  = loaded[r].total_credits_spent + credits_required(r)
             /\ cur'[r].credits_balance
                  = cur[r].credits_balance + credits_required(r)]_vars
  /\ [][\A r \in Reqs :
          (pc'[r] # pc[r] /\ pc[r] # "idle"
             /\ (rq[r].story_length = "sample" \/ pc'[r] = "err400"))
          => /\ \A e \in Emails : SameCredits(users', users, e)
             /\ cur'[r].credits_balance <= cur[r].credits_balance
             /\ refunds'[r] = 0]_vars

\* C24 witness: one request was rejected for insufficient credits, and a
\* debited one was refunded after its job failed.
C24_Witness ==
  \E r1, r2 \in Reqs :
    /\ Paid(r1) /\ pc[r1] = "err400" /\ refunds[r1] = 0
    /\ Paid(r2) /\ pc[r2] = "err500" /\ refunds[r2] = 1

\* C25: every story_generation Transaction has status completed, a negative
\* credits_amount equal to minus the cost of its story's tier, and the
\* story_id of an existing story with generation_status complete that belongs
\* to the same user; it was written by a request whose job succeeded, and the
\* step of a failing job writes no Transaction.
C25_SpendRowAfterStory ==
  /\ [](\A i \in RowsOfType("story_generation") :
          LET t == transactions[i]
          IN /\ t.status = "completed"
             /\ t.credits_amount < 0
             /\ t.story_id \in DOMAIN stories
             /\ stories[t.story_id].generation_status = "complete"
             /\ stories[t.story_id].user_id = t.user_id
             /\ t.credits_amount
                  = -CREDIT_COSTS[stories[t.story_id].story_type]
                                 [stories[t.story_id].length_type]
             /\ \E r \in Reqs :
                  /\ story_id[r] = t.story_id
                  /\ pc[r] \in {"logged", "done200"})
  /\ [][\A r \in Reqs :
          (pc'[r] = "err500" /\ pc[r] # "err500")
          => /\ transactions' = transactions
             /\ stories' = stories]_vars

\* C25 witness: the ledger holds a spend row linked to a story, and a paid
\* request of the same user ended with a failed job.
C25_Witness ==
  \E i \in RowsOfType("story_generation"), r \in Reqs :
    /\ transactions[i].story_id \in DOMAIN stories
    /\ rq[r].user = transactions[i].user_id
    /\ Paid(r) /\ pc[r] = "err500" /\ story_id[r] = NoStory

\* the users rows with address e
Accounts(e) == Len(created[e])

\* C26: under any interleaving of signup requests every address has at most
\* one users row; a signup step for an address that has a row ends the
\* request with an error (400 from the handler's query, or 500 from the
\* refused INSERT), inserts nothing and leaves the users table as it is.
C26_OneAccountPerEmail ==
  /\ [](\A e \in Emails :
          /\ Accounts(e) <= 1
          /\ users[e].exists <=> Accounts(e) = 1)
  /\ [][\A s \in Signups :
          (signups'[s] # signups[s] /\ users[signups'[s].email].exists)
          => /\ signups'[s].pc \in {"err400", "err500"}
             /\ users' = users
             /\ created' = created]_vars

\* C26 witness: two signups for one address both passed the query; one
\* created the account, the other one's INSERT was refused.
C26_Witness ==
  \E s1, s2 \in Signups :
    /\ signups[s1].email = signups[s2].email
    /\ signups[s1].pc = "done200" /\ signups[s2].pc = "err500"
    /\ Accounts(signups[s1].email) = 1

====
